---- MODULE Spec2Model ----
(***************************************************************************)
(* A model of mcnp_companion (the deck builder) and runner (the engine     *)
(* launcher).  A Python str is modelled as a sequence of one-character     *)
(* strings; a block of the deck is the sequence of the fragments that the  *)
(* code appended to it with +=, the Python value of the block being the    *)
(* concatenation Flat(block) of its fragments.                             *)
(***************************************************************************)
EXTENDS Integers, Sequences, FiniteSets, TLC

VARIABLES
    flavor,         \* the flavor argument the constructor was called with
    comment,        \* self.comment
    filename,       \* self.filename
    command,        \* self.command, Unset when no branch assigned it
    intro_block,    \* self.intro_block
    geo_block,      \* self.geo_block
    cell_block,     \* self.cell_block
    matl_block,     \* self.matl_block
    data_block,     \* self.data_block, Unset until somebody assigns it
    geo_num,        \* self.geo_num
    matl_num,       \* self.matl_num
    def_num,        \* self.def_num, Unset until somebody assigns it
    num,            \* the .num attribute of every geometry and material object
    inp,            \* the <filename>.inp files on disk
    out,            \* the <filename>.out files on disk
    needs_to_run,   \* runner.needs_to_run of the latest runner
    notifications,  \* the notifications shown so far
    procs,          \* the engine processes spawned so far
    raised          \* the exception the caller's latest statement raised

vars == <<flavor, comment, filename, command, intro_block, geo_block,
          cell_block, matl_block, data_block, geo_num, matl_num, def_num,
          num, inp, out, needs_to_run, notifications, procs, raised>>

deckVars == <<flavor, comment, filename, command, intro_block, geo_block,
              cell_block, matl_block, data_block, geo_num, matl_num, def_num,
              num>>

runVars == <<out, needs_to_run, notifications, procs>>

(***************************************************************************)
(* Bounds of the model.                                                    *)
(***************************************************************************)
\* the longest list of entities passed to one call
MaxList == 2
\* the most entities one deck is given, over all of its blocks
MaxEntities == 2
\* the largest distribution id the caller starts the counter with
MaxStartId == 2
\* the most engine processes spawned in one behaviour
MaxProcs == 2

(***************************************************************************)
(* Text.                                                                   *)
(***************************************************************************)
\* An attribute (or a file) that may be missing is <<>> while it is missing
\* and <<v>> once it holds v.
Unset == <<>>
Some(v) == <<v>>
IsSet(x) == x # <<>>
Val(x) == x[1]
NL == "\n"
SP == " "

Rep(c, n) == [i \in 1..n |-> c]

RECURSIVE Flat(_)
Flat(frags) ==
    IF frags = <<>> THEN <<>> ELSE Head(frags) \o Flat(Tail(frags))

DigitChar == <<"0", "1", "2", "3", "4", "5", "6", "7", "8", "9">>

\* "%d" % n for n >= 0
RECURSIVE Dec(_)
Dec(n) ==
    IF n < 10 THEN <<DigitChar[n + 1]>>
    ELSE Dec(n \div 10) \o <<DigitChar[(n % 10) + 1]>>

\* needle occurs in hay as a contiguous run of characters
Contains(hay, needle) ==
    \E i \in 0..(Len(hay) - Len(needle)) :
        \A j \in 1..Len(needle) : hay[i + j] = needle[j]

IsPrefix(s, t) ==
    /\ Len(s) <= Len(t)
    /\ \A i \in 1..Len(s) : s[i] = t[i]

\* every sequence over S of length at most n
SeqUpTo(S, n) == UNION {[1..k -> S] : k \in 0..n}

(***************************************************************************)
(* str.split() and ' '.join(): the whitespace normalisation of the header  *)
(* comment.                                                                *)
(***************************************************************************)
IsSpace(c) == c \in {" ", "\t", "\n"}

\* text.split(): the maximal runs of non-whitespace characters, in order
WordStarts(text) ==
    {i \in 1..Len(text) :
        ~IsSpace(text[i]) /\ (i = 1 \/ IsSpace(text[i - 1]))}

WordEnd(text, i) ==
    CHOOSE j \in i..Len(text) :
        /\ \A k \in i..j : ~IsSpace(text[k])
        /\ j = Len(text) \/ IsSpace(text[j + 1])

Split(text) ==
    LET starts == WordStarts(text)
        nth(k) == CHOOSE i \in starts :
                      Cardinality({j \in starts : j < i}) = k - 1
    IN  [k \in 1..Cardinality(starts) |->
            SubSeq(text, nth(k), WordEnd(text, nth(k)))]

\* sep.join(words)
RECURSIVE Join(_, _)
Join(words, sep) ==
    IF words = <<>> THEN <<>>
    ELSE IF Len(words) = 1 THEN Head(words)
    ELSE Head(words) \o sep \o Join(Tail(words), sep)

Normalize(text) == Join(Split(text), <<SP>>)

(***************************************************************************)
(* textwrap.TextWrapper(initial_indent='c ', subsequent_indent='c ',       *)
(* width=80).fill(text), on a text whose whitespace is single spaces.      *)
(***************************************************************************)
WrapWidth == 80
Indent == <<"c", SP>>

\* the chunks textwrap splits a text into: words and the blanks between them
RECURSIVE Interleave(_)
Interleave(words) ==
    IF Len(words) <= 1 THEN words
    ELSE <<Head(words), <<SP>>>> \o Interleave(Tail(words))

IsBlank(chunk) == \A i \in 1..Len(chunk) : chunk[i] = SP

\* the chunks that fit on the current line
RECURSIVE TakeFit(_, _, _, _)
TakeFit(chunks, cur, cur_len, width) ==
    IF chunks # <<>> /\ cur_len + Len(Head(chunks)) <= width
    THEN TakeFit(Tail(chunks), Append(cur, Head(chunks)),
                 cur_len + Len(Head(chunks)), width)
    ELSE [cur |-> cur, cur_len |-> cur_len, rest |-> chunks]

\* _handle_long_word with break_long_words: the line takes what still fits
HandleLongWord(fit, width) ==
    IF fit.rest # <<>> /\ Len(Head(fit.rest)) > width
    THEN LET space_left == width - fit.cur_len
             word == Head(fit.rest)
         IN  [cur |-> Append(fit.cur, SubSeq(word, 1, space_left)),
              cur_len |-> fit.cur_len,
              rest |-> <<SubSeq(word, space_left + 1, Len(word))>>
                       \o Tail(fit.rest)]
    ELSE fit

DropLast(s) == SubSeq(s, 1, Len(s) - 1)

RECURSIVE WrapChunks(_, _, _)
WrapChunks(chunks, lines, width) ==
    IF chunks = <<>> THEN lines
    ELSE LET c0 == IF IsBlank(Head(chunks)) /\ lines # <<>>
                   THEN Tail(chunks) ELSE chunks
             fit == HandleLongWord(TakeFit(c0, <<>>, 0, width), width)
             cur == IF fit.cur # <<>> /\ IsBlank(fit.cur[Len(fit.cur)])
                    THEN DropLast(fit.cur) ELSE fit.cur
         IN  WrapChunks(fit.rest,
                        IF cur # <<>> THEN Append(lines, Indent \o Flat(cur))
                        ELSE lines,
                        width)

Fill(text) ==
    Join(WrapChunks(Interleave(Split(text)), <<>>, WrapWidth - Len(Indent)),
         <<NL>>)

(***************************************************************************)
(* str.center and the banner lines of the deck.                            *)
(***************************************************************************)
BannerWidth == 78

\* text.center(width, fill) as CPython pads it
Center(text, width, fill) ==
    IF Len(text) >= width THEN text
    ELSE LET marg == width - Len(text)
             left == (marg \div 2) +
                     (IF marg % 2 = 1 /\ width % 2 = 1 THEN 1 ELSE 0)
         IN  Rep(fill, left) \o text \o Rep(fill, marg - left)

Banner(label) == <<"c", SP>> \o Center(label, BannerWidth, "-") \o <<NL>>

LabelCells == <<SP, "C", "e", "l", "l", "s", SP>>
LabelGeometry == <<SP, "G", "e", "o", "m", "e", "t", "r", "y", SP>>
LabelData == <<SP, "D", "a", "t", "a", SP>>
LabelMaterials == <<SP, "M", "a", "t", "e", "r", "i", "a", "l", "s", SP>>

(***************************************************************************)
(* The objects the caller passes in.  Their comment and string attributes  *)
(* never change; their num attribute is the state variable num.            *)
(***************************************************************************)
Geometries == {"g1", "g2"}
Materials == {"m1", "m2"}
Sources == {"s1", "s2"}

EntComment(e) ==
    CASE e = "g1" -> <<"o", "u", "t">>
      [] e = "g2" -> <<"i", "n">>
      [] e = "m1" -> <<"P", "b">>
      [] e = "m2" -> <<"F", "e">>

EntString(e) ==
    CASE e = "g1" -> <<"s", "o", SP, "9">>
      [] e = "g2" -> <<"p", "x", SP, "1", "0">>
      [] e = "m1" -> <<"8", "2", SP, "1">>
      [] e = "m2" -> <<"2", "6", SP, "1">>
      [] e = "s1" -> <<"e", "=", "d", "%", "d">>
      [] e = "s2" -> <<"p", "a", "r", "=", "1">>

\* source.dists: the string of every attached distribution
SrcDists(e) ==
    CASE e = "s1" -> << <<"0", SP, "1">>, <<"1", SP, "2">> >>
      [] e = "s2" -> << <<"3">> >>

\* the lists a caller passes
GeoLists == SeqUpTo(Geometries, MaxList)
MatlLists == SeqUpTo(Materials, MaxList)
SourceLists == SeqUpTo(Sources, MaxList)

(***************************************************************************)
(* mcnp_companion.__init__                                                 *)
(***************************************************************************)
FileF == <<"f">>
FileG == <<"g">>
Filenames == {FileF, FileG}

Mcnp6 == <<"m", "c", "n", "p", "6">>
Mcnp5 == <<"m", "c", "n", "p", "5">>
McnpX == <<"m", "c", "n", "p", "x">>

\* "flavor is '6'": true of the very object the literal denotes.  A flavor
\* is its value and whether it is that object (an equal unicode or computed
\* string is another object).
FlavorIs(f, literal) == f.value = literal /\ f.same

SelectCommand(f) ==
    IF FlavorIs(f, "6") THEN Some(Mcnp6)
    ELSE IF FlavorIs(f, "5") THEN Some(Mcnp5)
    ELSE IF FlavorIs(f, "x") THEN Some(McnpX)
    ELSE Unset

CommentSpaces == <<"a", SP, SP, "b", "\t", SP, "c", SP>>
CommentLong == Rep("a", 40) \o <<SP, SP>> \o Rep("b", 40) \o <<NL, "c">>
CommentWord == <<"d", SP>> \o Rep("w", 81)
CommentEmpty == <<>>

\* the constructor calls the model starts from
CtorCalls ==
    { [comment |-> CommentSpaces, filename |-> FileF,
       flavor |-> [value |-> "6", same |-> TRUE]],
      [comment |-> CommentLong, filename |-> FileG,
       flavor |-> [value |-> "5", same |-> TRUE]],
      [comment |-> CommentWord, filename |-> FileF,
       flavor |-> [value |-> "x", same |-> TRUE]],
      [comment |-> CommentEmpty, filename |-> FileG,
       flavor |-> [value |-> "7", same |-> TRUE]],
      [comment |-> CommentSpaces, filename |-> FileG,
       flavor |-> [value |-> "6", same |-> FALSE]] }

Init ==
    \E c \in CtorCalls :
        /\ flavor = c.flavor
        /\ comment = Normalize(c.comment)
        /\ filename = c.filename
        /\ command = SelectCommand(c.flavor)
        /\ intro_block = <<Normalize(c.comment)>>
        /\ geo_block = <<>>
        /\ cell_block = <<>>
        /\ matl_block = <<>>
        /\ data_block = Unset
        /\ geo_num = Unset
        /\ matl_num = Unset
        /\ def_num = Unset
        /\ num = [e \in Geometries \cup Materials |-> Unset]
        /\ inp = [f \in Filenames |-> Unset]
        /\ out = [f \in Filenames |-> Unset]
        /\ needs_to_run = Unset
        /\ notifications = <<>>
        /\ procs = <<>>
        /\ raised = "none"

(***************************************************************************)
(* mcnp_companion.geo, matl and cell                                       *)
(***************************************************************************)
Sdef == <<"s", "d", "e", "f", SP, SP, SP, SP>>

\* the entities the deck holds: three fragments each in the geometry and
\* material blocks, one sdef fragment each in the data block
Entities ==
    (Len(geo_block) \div 3) + (Len(matl_block) \div 3)
        + (IF IsSet(data_block)
           THEN Cardinality({i \in 1..Len(Val(data_block)) :
                                Val(data_block)[i] = Sdef})
           ELSE 0)

\* the body of "for geo in geos" from entity i on; st is the block, the
\* counter and the num attributes so far
\* GeoLoop with the counter stepped by one, as the material counter is
RECURSIVE GeoLoopStepOne(_, _, _)
GeoLoopStepOne(geos, i, st) ==
    IF i > Len(geos) THEN st
    ELSE GeoLoopStepOne(geos, i + 1,
             [block |-> st.block \o
                        << EntComment(geos[i]) \o <<NL>>,
                           Dec(st.counter) \o <<SP, SP, SP, SP>>,
                           EntString(geos[i]) \o <<NL>> >>,
              nums |-> [st.nums EXCEPT ![geos[i]] = Some(st.counter)],
              counter |-> st.counter + 1])

RECURSIVE GeoLoop(_, _, _)
GeoLoop(geos, i, st) ==
    IF i > Len(geos) THEN st
    ELSE GeoLoop(geos, i + 1,
             [block |-> st.block \o
                        << EntComment(geos[i]) \o <<NL>>,
                           Dec(st.counter) \o <<SP, SP, SP, SP>>,
                           EntString(geos[i]) \o <<NL>> >>,
              nums |-> [st.nums EXCEPT ![geos[i]] = Some(st.counter)],
              counter |-> st.counter + 10])

\* geo(geos)
Geo ==
    /\ \E geos \in GeoLists :
          /\ Entities + Len(geos) <= MaxEntities
          /\ LET r == GeoLoop(geos, 1, [block |-> geo_block, nums |-> num,
                                        counter |-> 10])
             IN  /\ geo_block' = r.block
                 /\ num' = r.nums
                 /\ geo_num' = Some(r.counter)
    /\ raised' = "none"
    /\ UNCHANGED <<flavor, comment, filename, command, intro_block,
                   cell_block, matl_block, data_block, matl_num, def_num,
                   inp>>
    /\ UNCHANGED runVars

RECURSIVE MatlLoop(_, _, _)
MatlLoop(matls, i, st) ==
    IF i > Len(matls) THEN st
    ELSE MatlLoop(matls, i + 1,
             [block |-> st.block \o
                        << EntComment(matls[i]) \o <<NL>>,
                           <<"m">> \o Dec(st.counter) \o <<SP>>,
                           EntString(matls[i]) \o <<NL>> >>,
              nums |-> [st.nums EXCEPT ![matls[i]] = Some(st.counter)],
              counter |-> st.counter + 1])

\* matl(matls)
Matl ==
    /\ \E matls \in MatlLists :
          /\ Entities + Len(matls) <= MaxEntities
          /\ LET r == MatlLoop(matls, 1, [block |-> matl_block,
                                          nums |-> num, counter |-> 1])
             IN  /\ matl_block' = r.block
                 /\ num' = r.nums
                 /\ matl_num' = Some(r.counter)
    /\ raised' = "none"
    /\ UNCHANGED <<flavor, comment, filename, command, intro_block,
                   geo_block, cell_block, data_block, geo_num, def_num,
                   inp>>
    /\ UNCHANGED runVars

Cell ==
    /\ raised' = "none"
    /\ UNCHANGED deckVars
    /\ UNCHANGED inp
    /\ UNCHANGED runVars

(***************************************************************************)
(* mcnp_companion.source.  The class never assigns data_block or def_num:  *)
(* source() works only on a deck whose caller assigned them from outside,  *)
(* which SetDefNum and SetDataBlock model.                                 *)
(***************************************************************************)
\* the caller's  deck.def_num = d
SetDefNum ==
    \E d \in 1..MaxStartId :
        /\ ~IsSet(def_num)
        /\ def_num' = Some(d)
        /\ raised' = "none"
        /\ UNCHANGED <<flavor, comment, filename, command, intro_block,
                       geo_block, cell_block, matl_block, data_block, geo_num,
                       matl_num, num, inp>>
        /\ UNCHANGED runVars

\* the caller's  deck.data_block = ''
SetDataBlock ==
    /\ ~IsSet(data_block)
    /\ data_block' = Some(<<>>)
    /\ raised' = "none"
    /\ UNCHANGED <<flavor, comment, filename, command, intro_block,
                   geo_block, cell_block, matl_block, geo_num, matl_num,
                   def_num, num, inp>>
    /\ UNCHANGED runVars

\* string % n with an integer n: the text, or the exception it raises
RECURSIVE FormatFrom(_, _, _, _)
FormatFrom(text, n, acc, used) ==
    IF text = <<>>
    THEN [text |-> acc,
          err |-> IF used = 0 THEN "TypeError" ELSE "none"]
    ELSE IF Head(text) # "%"
    THEN FormatFrom(Tail(text), n, Append(acc, Head(text)), used)
    ELSE IF Len(text) = 1
    THEN [text |-> acc, err |-> "ValueError"]
    ELSE IF text[2] = "%"
    THEN FormatFrom(Tail(Tail(text)), n, Append(acc, "%"), used)
    ELSE IF text[2] \in {"d", "i", "s"}
    THEN IF used = 1
         THEN [text |-> acc, err |-> "TypeError"]
         ELSE FormatFrom(Tail(Tail(text)), n, acc \o Dec(n), used + 1)
    ELSE [text |-> acc, err |-> "ValueError"]

Format(text, n) == FormatFrom(text, n, <<>>, 0)

Pad5 == <<SP, SP, SP, SP, SP>>

\* the body of "for dist in source.dists" from distribution j on
RECURSIVE DistLoop(_, _, _)
DistLoop(dists, j, st) ==
    IF j > Len(dists) THEN st
    ELSE DistLoop(dists, j + 1,
             [block |-> st.block \o
                        << Pad5 \o <<"s", "p">> \o Dec(st.def)
                                \o <<SP, SP, SP, SP>>,
                           Pad5 \o dists[j] \o <<NL>> >>,
              def |-> st.def + 1,
              err |-> "none"])

\* the body of "for source in sources" from source i on; block and def are
\* the attributes (missing or not) so far, err the exception that ended it
RECURSIVE SourceLoop(_, _, _)
SourceLoop(sources, i, st) ==
    IF i > Len(sources) THEN st
    ELSE IF ~IsSet(st.block)
    THEN [st EXCEPT !.err = "AttributeError"]
    ELSE IF ~IsSet(st.def)
    THEN [st EXCEPT !.block = Some(Append(Val(st.block), Sdef)),
                    !.err = "AttributeError"]
    ELSE LET fmt == Format(EntString(sources[i]), Val(st.def))
         IN  IF fmt.err # "none"
             THEN [st EXCEPT !.block = Some(Append(Val(st.block), Sdef)),
                             !.err = fmt.err]
             ELSE LET d == DistLoop(SrcDists(sources[i]), 1,
                               [block |-> Val(st.block) \o
                                          <<Sdef, fmt.text \o <<NL>>>>,
                                def |-> Val(st.def),
                                err |-> "none"])
                  IN  SourceLoop(sources, i + 1,
                                 [block |-> Some(d.block),
                                  def |-> Some(d.def),
                                  err |-> "none"])

\* source(sources)
Source ==
    /\ \E sources \in SourceLists :
          /\ Entities + Len(sources) <= MaxEntities
          /\ LET r == SourceLoop(sources, 1, [block |-> data_block,
                                              def |-> def_num,
                                              err |-> "none"])
             IN  /\ data_block' = r.block
                 /\ def_num' = r.def
                 /\ raised' = r.err
    /\ UNCHANGED <<flavor, comment, filename, command, intro_block,
                   geo_block, cell_block, matl_block, geo_num, matl_num,
                   num, inp>>
    /\ UNCHANGED runVars

(***************************************************************************)
(* mcnp_companion.run: the deck as written to <filename>.inp               *)
(***************************************************************************)
TitlePart == filename \o <<NL>>
IntroPart == Fill(Flat(intro_block)) \o <<NL>>
CellsPart == Banner(LabelCells) \o <<NL>>
GeometryPart == Banner(LabelGeometry) \o Flat(geo_block) \o <<NL>>
DataPart == Banner(LabelData)
MaterialsPart == Banner(LabelMaterials) \o Flat(matl_block) \o <<NL>>

Render ==
    TitlePart \o IntroPart \o CellsPart \o GeometryPart \o DataPart
        \o MaterialsPart

\* Run with the intro written into the block at every call
RunAppendingIntro ==
    /\ inp' = [inp EXCEPT ![filename] = Some(Render)]
    /\ intro_block' = Append(intro_block, comment)
    /\ raised' = "none"
    /\ UNCHANGED <<flavor, comment, filename, command, geo_block, cell_block,
                   matl_block, data_block, geo_num, matl_num, def_num, num>>
    /\ UNCHANGED runVars

Run ==
    /\ inp' = [inp EXCEPT ![filename] = Some(Render)]
    /\ raised' = "none"
    /\ UNCHANGED deckVars
    /\ UNCHANGED runVars

(***************************************************************************)
(* runner.__init__                                                         *)
(***************************************************************************)
Commands == {Mcnp6, McnpX}

Nohup == <<"n", "o", "h", "u", "p", SP>>
ArgInp == <<SP, "i", "n", "p", "=">>
ExtInp == <<".", "i", "n", "p", SP>>
ArgOut == <<"o", "u", "t", "=">>
ExtOut == <<".", "o", "u", "t", SP>>
ArgRun == <<"r", "u", "n", "=">>
ExtRun == <<"_", "r", "u", "n", "t", "p", "e", SP>>
ArgMctal == <<"m", "c", "t", "a", "l", "=">>
ExtMctal == <<"_", "t", "a", "l", "l", "i", "e", "s", ".", "o", "u", "t">>
Disown == <<SP, "&", SP, "d", "i", "s", "o", "w", "n">>
WillNowRun == <<"W", "i", "l", "l", SP, "n", "o", "w", SP, "r", "u", "n", SP>>

\* Cmd with the restart file bound to the path of the log
CmdRunIsOut(f, c) ==
    Nohup \o c \o ArgInp \o f \o ExtInp \o ArgOut \o f \o ExtOut
          \o ArgRun \o f \o ExtOut \o ArgMctal \o f \o ExtMctal \o Disown

\* the command line the runner constructs
Cmd(f, c) ==
    Nohup \o c \o ArgInp \o f \o ExtInp \o ArgOut \o f \o ExtOut
          \o ArgRun \o f \o ExtRun \o ArgMctal \o f \o ExtMctal \o Disown

\* the notification the runner shows
Notification(f, c) ==
    [title |-> c, body |-> WillNowRun \o Cmd(f, c) \o <<".">>]

\* what "self.needs_to_run = True" and the renderer check leave in the flag
NeedsToRun(f) == TRUE

\* runner(f, c, remote, sys)
Runner ==
    \E f \in Filenames, c \in Commands :
        /\ Len(procs) < MaxProcs
        /\ needs_to_run' = Some(NeedsToRun(f))
        /\ notifications' = Append(notifications, Notification(f, c))
        /\ procs' = IF NeedsToRun(f)
                    THEN Append(procs, [cmd |-> Cmd(f, c), file |-> f,
                                        running |-> TRUE])
                    ELSE procs
        /\ raised' = "none"
        /\ UNCHANGED deckVars
        /\ UNCHANGED <<inp, out>>

\* an engine process ends: it leaves <file>.out, which records the input
\* deck it read and holds the termination marker when the run completed
\* (which takes an input deck)
EngineExit ==
    \E i \in 1..Len(procs), marker \in BOOLEAN :
        /\ procs[i].running
        /\ marker => IsSet(inp[procs[i].file])
        /\ procs' = [procs EXCEPT ![i].running = FALSE]
        /\ out' = [out EXCEPT ![procs[i].file] =
                       Some([input |-> inp[procs[i].file],
                             marker |-> marker])]
        /\ UNCHANGED deckVars
        /\ UNCHANGED <<inp, needs_to_run, notifications, raised>>

(***************************************************************************)
(* Two specifications.  The deck builder and the runner share nothing but  *)
(* the files on disk: Spec is the building and the writing of a deck,      *)
(* LaunchSpec the writing of a deck as constructed and the runs launched.  *)
(* FairLaunchSpec adds that an engine process that was spawned ends.       *)
(***************************************************************************)
Next ==
    \/ Geo
    \/ Matl
    \/ Cell
    \/ SetDefNum
    \/ SetDataBlock
    \/ Source
    \/ Run

Spec == Init /\ [][Next]_vars

LaunchNext ==
    \/ Run
    \/ Runner
    \/ EngineExit

LaunchSpec == Init /\ [][LaunchNext]_vars

FairLaunchSpec == LaunchSpec /\ WF_vars(EngineExit)

(***************************************************************************)
(* The claims.                                                             *)
(***************************************************************************)
FourSp == <<SP, SP, SP, SP>>

Max(S) == CHOOSE x \in S : \A y \in S : y <= x

\* entry k of a geometry or material block is the entry of entity e
EntryOf(block, k, e) ==
    /\ block[3 * k - 2] = EntComment(e) \o <<NL>>
    /\ block[3 * k] = EntString(e) \o <<NL>>

IdRange == 0..(10 * (MaxEntities + 2))
GeoIdAt(k) == CHOOSE n \in IdRange : geo_block[3 * k - 1] = Dec(n) \o FourSp
MatlIdAt(k) ==
    CHOOSE n \in IdRange : matl_block[3 * k - 1] = <<"m">> \o Dec(n) \o <<SP>>

\* C1: in each category no two entities hold the same num, and the ids
\* written to the block are strictly increasing in insertion order.
C1_UniqueIncreasingIds ==
    /\ \A e1, e2 \in Geometries :
          (e1 # e2 /\ IsSet(num[e1]) /\ IsSet(num[e2])) => num[e1] # num[e2]
    /\ \A e1, e2 \in Materials :
          (e1 # e2 /\ IsSet(num[e1]) /\ IsSet(num[e2])) => num[e1] # num[e2]
    /\ \A j, k \in 1..(Len(geo_block) \div 3) :
          j < k => GeoIdAt(j) < GeoIdAt(k)
    /\ \A j, k \in 1..(Len(matl_block) \div 3) :
          j < k => MatlIdAt(j) < MatlIdAt(k)

\* the first geometry added to a deck: entry k carries 10*k, and an entity of
\* the call holds the id of its (last) entry
C2_FreshGeo ==
    (geo_block = <<>> /\ geo_block' # <<>>) =>
        /\ \A k \in 1..(Len(geo_block') \div 3) :
              geo_block'[3 * k - 1] = Dec(10 * k) \o FourSp
        /\ \A e \in Geometries :
              LET ks == {k \in 1..(Len(geo_block') \div 3) :
                            EntryOf(geo_block', k, e)}
              IN  IF ks = {} THEN num'[e] = Unset
                  ELSE num'[e] = Some(10 * Max(ks))

\* the first materials added to a deck: entry k carries k
C2_FreshMatl ==
    (matl_block = <<>> /\ matl_block' # <<>>) =>
        /\ \A k \in 1..(Len(matl_block') \div 3) :
              matl_block'[3 * k - 1] = <<"m">> \o Dec(k) \o <<SP>>
        /\ \A e \in Materials :
              LET ks == {k \in 1..(Len(matl_block') \div 3) :
                            EntryOf(matl_block', k, e)}
              IN  IF ks = {} THEN num'[e] = Unset
                  ELSE num'[e] = Some(Max(ks))

\* a step that touches one category leaves the other as it was
C2_Independent ==
    /\ (geo_block' # geo_block \/ geo_num' # geo_num) =>
          /\ matl_block' = matl_block
          /\ matl_num' = matl_num
          /\ \A e \in Materials : num'[e] = num[e]
    /\ (matl_block' # matl_block \/ matl_num' # matl_num) =>
          /\ geo_block' = geo_block
          /\ geo_num' = geo_num
          /\ \A e \in Geometries : num'[e] = num[e]

\* C2: on a fresh deck the k-th geometry entity gets 10*k and the k-th
\* material entity gets k, and adding to one category changes nothing of the
\* other.
C2_Numbering == [][C2_FreshGeo /\ C2_FreshMatl /\ C2_Independent]_vars

\* geo([g1, g2]) on a fresh deck has stamped 10 and 20
C2_Witness ==
    /\ Len(geo_block) = 6
    /\ geo_block[2] = <<"1", "0">> \o FourSp
    /\ geo_block[5] = <<"2", "0">> \o FourSp
    /\ num["g1"] = Some(10)
    /\ num["g2"] = Some(20)

\* every id written to a block for an entity is the id the entity holds
StampedOnce ==
    /\ \A e \in Geometries : \A k \in 1..(Len(geo_block) \div 3) :
          EntryOf(geo_block, k, e) =>
              /\ IsSet(num[e])
              /\ geo_block[3 * k - 1] = Dec(Val(num[e])) \o FourSp
    /\ \A e \in Materials : \A k \in 1..(Len(matl_block) \div 3) :
          EntryOf(matl_block, k, e) =>
              /\ IsSet(num[e])
              /\ matl_block[3 * k - 1] = <<"m">> \o Dec(Val(num[e])) \o <<SP>>

\* C3: the num of an entity is set once: a num that has a value keeps it,
\* and no entity was given two different ids.
C3_IdSetOnce ==
    [][/\ \A e \in Geometries \cup Materials :
             IsSet(num[e]) => num'[e] = num[e]
       /\ StampedOnce']_vars

\* a step that is a call of source with a source to add: only source raises,
\* and only source changes a data block that exists
SourceStep ==
    \/ raised' # "none"
    \/ IsSet(data_block) /\ data_block' # data_block

\* the lines source is to append for these sources when the distribution
\* counter stands at d: one sdef line, then one sp line per distribution
RECURSIVE SdefSpLines(_, _)
SdefSpLines(sources, d) ==
    IF sources = <<>> THEN <<>>
    ELSE LET s == Head(sources)
             n == Len(SrcDists(s))
         IN  << <<"s", "d", "e", "f", SP, SP, SP, SP>>,
                Format(EntString(s), d).text \o <<NL>> >>
             \o Flat([j \in 1..n |->
                        << <<SP, SP, SP, SP, SP, "s", "p">> \o Dec(d + j - 1)
                               \o FourSp,
                           <<SP, SP, SP, SP, SP>> \o SrcDists(s)[j]
                               \o <<NL>> >>])
             \o SdefSpLines(Tail(sources), d + n)

\* C7: source before the distribution counter is established fails at that
\* call; once the counter is established with d it appends, per source, an
\* sdef line and one sp line per distribution, numbered d, d+1, ...
C7_SourceNeedsCounter ==
    [][SourceStep =>
         IF ~IsSet(def_num)
         THEN raised' # "none"
         ELSE /\ raised' = "none"
              /\ IsSet(data_block')
              /\ \E sources \in SourceLists :
                    Val(data_block') =
                        (IF IsSet(data_block) THEN Val(data_block) ELSE <<>>)
                            \o SdefSpLines(sources, Val(def_num))]_vars

\* C8: a step that writes the deck file changes no block and no counter of
\* the deck, and a step on an unmutated deck whose file holds its rendering
\* (a second run) leaves the file byte for byte as it was.
C8_RenderPure ==
    [][/\ inp' # inp => UNCHANGED deckVars
       /\ (UNCHANGED deckVars /\ inp[filename] = Some(Render)) => inp' = inp]_vars

\* a deck with geometry and materials whose file holds its rendering
C8_Witness ==
    /\ geo_block # <<>>
    /\ matl_block # <<>>
    /\ inp[filename] = Some(Render)

\* source s was added: its sdef line, with some number substituted, is in
\* the data block
SourceAdded(s) ==
    /\ IsSet(data_block)
    /\ \E i \in 1..(Len(Val(data_block)) - 1), n \in IdRange :
          /\ Val(data_block)[i] = Sdef
          /\ Format(EntString(s), n).err = "none"
          /\ Val(data_block)[i + 1] = Format(EntString(s), n).text \o <<NL>>

C9_RoundTrip ==
    /\ \A e \in Geometries :
          IsSet(num[e]) => Contains(GeometryPart, EntString(e))
    /\ \A e \in Materials :
          IsSet(num[e]) => Contains(MaterialsPart, EntString(e))
    /\ \A e \in Sources :
          SourceAdded(e) => Contains(DataPart, EntString(e))

C9_AppendOnly ==
    /\ IsPrefix(geo_block, geo_block')
    /\ IsPrefix(matl_block, matl_block')
    /\ IsSet(data_block) =>
          /\ IsSet(data_block')
          /\ IsPrefix(Val(data_block), Val(data_block'))

\* C9: the string of every entity added by geo, matl or source stands
\* verbatim in its category's part of the rendered deck, and the blocks only
\* grow at their end.
C9_RoundTripAllBlocks == [][C9_RoundTrip' /\ C9_AppendOnly]_vars

\* the part of C9 that is about geometry and materials alone
RoundTripGeoMatl ==
    /\ \A e \in Geometries :
          IsSet(num[e]) => Contains(GeometryPart, EntString(e))
    /\ \A e \in Materials :
          IsSet(num[e]) => Contains(MaterialsPart, EntString(e))

\* the artifact <f>.out is complete and records the deck <f>.inp holds now
ValidPrior(f) ==
    /\ IsSet(out[f])
    /\ Val(out[f]).marker
    /\ IsSet(inp[f])
    /\ Val(out[f]).input = inp[f]

\* this step constructs a runner for the deck file f
RunnerStepFor(f) ==
    /\ Len(notifications') = Len(notifications) + 1
    /\ LET n == notifications'[Len(notifications')]
       IN  n.body = WillNowRun \o Cmd(f, n.title) \o <<".">>

\* C4: a runner constructed for a deck whose complete artifact records that
\* very deck decides to skip and spawns no engine process.
C4_SkipsCompletedDeck ==
    [][\A f \in Filenames :
          (ValidPrior(f) /\ RunnerStepFor(f)) =>
              /\ needs_to_run' = Some(FALSE)
              /\ procs' = procs]_vars

EndedRuns == {i \in 1..Len(procs) : ~procs[i].running}

\* the notifications that are not the launch notification
TerminalNotifications ==
    {j \in 1..Len(notifications) :
        ~IsPrefix(WillNowRun, notifications[j].body)}

\* C5: every run launched ends in one terminal notification (COMPLETED or
\* FAILED): once engine processes have ended, as many terminal notifications
\* as ended runs are eventually shown.
C5_EveryRunNotifiesItsEnd ==
    (EndedRuns # {}) ~>
        (Cardinality(TerminalNotifications) = Cardinality(EndedRuns))

\* C6: a deck constructed with an unsupported selector ends in
\* UnsupportedEngineError and no process is spawned for it, and each
\* supported selector (the literal itself) resolves to its own engine
\* command.
C6_UnsupportedSelectorFails ==
    /\ flavor.value \notin {"6", "5", "x"} =>
          /\ raised = "UnsupportedEngineError"
          /\ procs = <<>>
    /\ (flavor.same /\ flavor.value = "6") =>
          command = Some(<<"m", "c", "n", "p", "6">>)
    /\ (flavor.same /\ flavor.value = "5") =>
          command = Some(<<"m", "c", "n", "p", "5">>)
    /\ (flavor.same /\ flavor.value = "x") =>
          command = Some(<<"m", "c", "n", "p", "x">>)

\* the four artifact paths bound to the deck file f
BindsInp(f) == <<"i", "n", "p", "=">> \o f \o <<".", "i", "n", "p", SP>>
BindsOut(f) == <<"o", "u", "t", "=">> \o f \o <<".", "o", "u", "t", SP>>
BindsRun(f) ==
    <<"r", "u", "n", "=">> \o f \o <<"_", "r", "u", "n", "t", "p", "e", SP>>
BindsMctal(f) ==
    <<"m", "c", "t", "a", "l", "=">> \o f
        \o <<"_", "t", "a", "l", "l", "i", "e", "s", ".", "o", "u", "t">>

\* C10: a notification is shown if and only if a process is spawned, the
\* process runs the given command with inp, out, run and mctal bound to the
\* paths made from the deck filename, and the notification holds that
\* command line.
C10_LaunchedIffSpawned ==
    /\ Len(notifications) = Len(procs)
    /\ \A i \in 1..Len(procs) :
          LET f == procs[i].file
              c == notifications[i].title
          IN  /\ Contains(procs[i].cmd,
                          c \o <<SP>> \o BindsInp(f) \o BindsOut(f)
                            \o BindsRun(f) \o BindsMctal(f))
              /\ Contains(notifications[i].body, procs[i].cmd)

\* two runs were launched, for different deck files
C10_Witness ==
    /\ Len(procs) = 2
    /\ procs[1].file # procs[2].file
    /\ notifications[1].title # notifications[2].title

====
